---- MODULE Spec2Model ----
(***************************************************************************)
(* Keyword analyser (src/index.tsx): the keyword-form submit handler, the  *)
(* provider dispatcher performAnalysis, the response interpreter           *)
(* (substring + JSON.parse), renderResults with its two charts, and the    *)
(* settings logic (setupApplication, showSetup, the api-key form and the   *)
(* settings toggle).                                                       *)
(*                                                                         *)
(* Text is a sequence of lexical tokens: structural characters, one blank, *)
(* one character of prose, number literals and quoted string literals.     *)
(* A JavaScript value is a tagged record.  The decorative logo             *)
(* (generateAndSetLogo, logoContainer) and the prompt text (createPrompt)  *)
(* are read by nothing modelled here and are left out.                     *)
(***************************************************************************)
EXTENDS Integers, Sequences, FiniteSets, TLC

(***************************************************************************)
(* Bounds of the model.                                                    *)
(***************************************************************************)
\* submissions of the keyword form followed in one behaviour
MaxSubmissions == 2
\* longest response text enumerated token by token
MaxLen == 5
\* longest prose run put before and after an embedded JSON object
MaxPad == 1
\* how far below 0 and above 100 the competition scores range
ScoreSpan == 20

(***************************************************************************)
(* JavaScript values.                                                      *)
(***************************************************************************)
JUndef == [t |-> "undefined"]
JNull == [t |-> "null"]
JNum(n) == [t |-> "num", n |-> n]
JStr(s) == [t |-> "str", s |-> s]
JArr(items) == [t |-> "arr", items |-> items]
\* members: sequence of [k |-> key, v |-> value], in source order
JObj(members) == [t |-> "obj", members |-> members]

\* ToBoolean, as `||` and `&&` and `if` apply it
Truthy(v) ==
    CASE v.t = "undefined" -> FALSE
      [] v.t = "null" -> FALSE
      [] v.t = "num" -> v.n # 0
      [] v.t = "str" -> v.s # ""
      [] OTHER -> TRUE

\* a || b
Or(a, b) == IF Truthy(a) THEN a ELSE b

\* property read data[key] on a non-nullish value: the last member of that
\* name for an object, undefined for a primitive or an array
Get(data, key) ==
    IF data.t # "obj" THEN JUndef
    ELSE LET idx == {i \in 1..Len(data.members) : data.members[i].k = key}
         IN IF idx = {} THEN JUndef
            ELSE data.members[CHOOSE i \in idx : \A j \in idx : j <= i].v

(***************************************************************************)
(* String.prototype.indexOf / lastIndexOf / substring / trim on token      *)
(* sequences.  Positions are JavaScript's, counted from 0.                 *)
(***************************************************************************)
IndexOf(s, c) ==
    LET hits == {i \in 1..Len(s) : s[i] = c}
    IN IF hits = {} THEN -1
       ELSE (CHOOSE i \in hits : \A j \in hits : i <= j) - 1

LastIndexOf(s, c) ==
    LET hits == {i \in 1..Len(s) : s[i] = c}
    IN IF hits = {} THEN -1
       ELSE (CHOOSE i \in hits : \A j \in hits : j <= i) - 1

Clamp(i, n) == IF i < 0 THEN 0 ELSE IF i > n THEN n ELSE i

\* substring(start, end): both clamped to [0, length], swapped when start > end
Substring(s, start, end) ==
    LET a == Clamp(start, Len(s))
        b == Clamp(end, Len(s))
        lo == IF a <= b THEN a ELSE b
        hi == IF a <= b THEN b ELSE a
    IN SubSeq(s, lo + 1, hi)

RECURSIVE TrimStart(_)
TrimStart(s) == IF s # <<>> /\ Head(s) = " " THEN TrimStart(Tail(s)) ELSE s

RECURSIVE TrimEnd(_)
TrimEnd(s) ==
    IF s # <<>> /\ s[Len(s)] = " " THEN TrimEnd(SubSeq(s, 1, Len(s) - 1)) ELSE s

Trim(s) == TrimEnd(TrimStart(s))

(***************************************************************************)
(* JSON.parse on token sequences: the JSON grammar with blanks allowed     *)
(* between tokens.                                                         *)
(***************************************************************************)
NumVal ==
    ("0" :> 0) @@ ("5" :> 5) @@ ("75" :> 75)

NumTokens == DOMAIN NumVal

Keys ==
    <<"searchVolume", "searchVolumeValue", "competition", "competitionScore",
      "alternatives", "suggestedTitles", "longTailKeywords">>

\* a string literal token is its content between single quotes
StrVal ==
    ("'searchVolume'" :> "searchVolume")
    @@ ("'searchVolumeValue'" :> "searchVolumeValue")
    @@ ("'competition'" :> "competition")
    @@ ("'competitionScore'" :> "competitionScore")
    @@ ("'alternatives'" :> "alternatives")
    @@ ("'suggestedTitles'" :> "suggestedTitles")
    @@ ("'longTailKeywords'" :> "longTailKeywords")
    @@ ("'High'" :> "High") @@ ("''" :> "") @@ ("'a'" :> "a")

StrTokens == DOMAIN StrVal

ParseFail == [ok |-> FALSE]

ParseOk(v, next) == [ok |-> TRUE, v |-> v, next |-> next]

RECURSIVE SkipWs(_, _)
SkipWs(s, i) == IF i <= Len(s) /\ s[i] = " " THEN SkipWs(s, i + 1) ELSE i

Tok(s, i) == IF i <= Len(s) THEN s[i] ELSE "<eof>"

RECURSIVE ParseValue(_, _)
RECURSIVE ParseElems(_, _, _)
RECURSIVE ParseMembers(_, _, _)

ParseValue(s, i) ==
    LET j == SkipWs(s, i)
        tok == Tok(s, j)
    IN CASE tok \in NumTokens -> ParseOk(JNum(NumVal[tok]), j + 1)
         [] tok \in StrTokens -> ParseOk(JStr(StrVal[tok]), j + 1)
         [] tok = "null" -> ParseOk(JNull, j + 1)
         [] tok = "[" ->
              LET k == SkipWs(s, j + 1)
              IN IF Tok(s, k) = "]" THEN ParseOk(JArr(<<>>), k + 1)
                 ELSE ParseElems(s, k, <<>>)
         [] tok = "{" ->
              LET k == SkipWs(s, j + 1)
              IN IF Tok(s, k) = "}" THEN ParseOk(JObj(<<>>), k + 1)
                 ELSE ParseMembers(s, k, <<>>)
         [] OTHER -> ParseFail

ParseElems(s, i, acc) ==
    LET r == ParseValue(s, i)
    IN IF ~r.ok THEN ParseFail
       ELSE LET k == SkipWs(s, r.next)
            IN CASE Tok(s, k) = "," -> ParseElems(s, k + 1, Append(acc, r.v))
                 [] Tok(s, k) = "]" -> ParseOk(JArr(Append(acc, r.v)), k + 1)
                 [] OTHER -> ParseFail

ParseMembers(s, i, acc) ==
    LET j == SkipWs(s, i)
        c == SkipWs(s, j + 1)
    IN IF Tok(s, j) \notin StrTokens \/ Tok(s, c) # ":" THEN ParseFail
       ELSE LET r == ParseValue(s, c + 1)
            IN IF ~r.ok THEN ParseFail
               ELSE LET k == SkipWs(s, r.next)
                        m == Append(acc, [k |-> StrVal[Tok(s, j)], v |-> r.v])
                    IN CASE Tok(s, k) = "," -> ParseMembers(s, k + 1, m)
                         [] Tok(s, k) = "}" -> ParseOk(JObj(m), k + 1)
                         [] OTHER -> ParseFail

\* JSON.parse(text): the value, or ParseFail for a SyntaxError
JSONParse(s) ==
    LET r == ParseValue(s, 1)
    IN IF r.ok /\ SkipWs(s, r.next) > Len(s) THEN r ELSE ParseFail

(***************************************************************************)
(* Rendering.  resultsContainer holds a record: kind "empty", "loader",    *)
(* "error" (with the message shown) or "results" (with the cards shown).   *)
(***************************************************************************)
GreenMax == 33
YellowMax == 66

\* the marker shown for a label that is not there
Unavailable == JStr("unavailable")

NaN == [nan |-> TRUE, n |-> 0]

Number(n) == [nan |-> FALSE, n |-> n]

\* ToNumber, as `<=` applies it to a non-number operand
RECURSIVE ToNumber(_)
ToNumber(v) ==
    CASE v.t = "num" -> Number(v.n)
      [] v.t = "null" -> Number(0)
      [] v.t = "str" -> IF v.s = "" THEN Number(0) ELSE NaN
      [] v.t = "arr" ->
           IF v.items = <<>> THEN Number(0)
           ELSE IF Len(v.items) = 1
                THEN IF v.items[1].t \in {"null", "undefined"} THEN Number(0)
                     ELSE IF v.items[1].t \in {"num", "str"}
                          THEN ToNumber(v.items[1])
                          ELSE NaN
                ELSE NaN
      [] OTHER -> NaN

\* score <= limit
Leq(score, limit) == LET x == ToNumber(score) IN ~x.nan /\ x.n <= limit

\* Color with < in place of <=
ColorStrict(score) ==
    IF Leq(score, GreenMax - 1) THEN "green"
    ELSE IF Leq(score, YellowMax - 1) THEN "yellow"
    ELSE "red"

\* the gauge colour of renderCompetitionChart
Color(score) ==
    IF Leq(score, GreenMax) THEN "green"
    ELSE IF Leq(score, YellowMax) THEN "yellow"
    ELSE "red"

RenderCompetitionChart(score) ==
    [type |-> "doughnut", data |-> score, color |-> Color(score)]

\* value.toLocaleString throws on null; undefined never gets here
RenderSearchVolumeChart(value) ==
    IF value.t = "null" THEN [threw |-> TRUE]
    ELSE [threw |-> FALSE, chart |-> [type |-> "bar", data |-> value]]

Defined(v) == v.t # "undefined"

\* (list || []).map(...): a truthy value that is no array has no map
ListItems(v) ==
    IF ~Truthy(v) THEN [threw |-> FALSE, items |-> <<>>]
    ELSE IF v.t = "arr" THEN [threw |-> FALSE, items |-> v.items]
    ELSE [threw |-> TRUE]

\* Card with the canvas decided by truthiness instead of !== undefined
CardTruthy(label, value) ==
    IF Truthy(value) \/ Truthy(label)
    THEN [shown |-> TRUE, label |-> Or(label, Unavailable), canvas |-> Truthy(value)]
    ELSE [shown |-> FALSE]

\* a card with a label and, for a defined number, a canvas
Card(label, value) ==
    IF Defined(value) \/ Truthy(label)
    THEN [shown |-> TRUE, label |-> Or(label, Unavailable), canvas |-> Defined(value)]
    ELSE [shown |-> FALSE]

\* the links of the sources card; <<>> when no card is added
SourceLinks(sources) ==
    IF sources.t = "arr" /\ Len(sources.items) > 0
    THEN SelectSeq(sources.items, LAMBDA c : c.web)
    ELSE <<>>

NoChart == [type |-> "none"]

EmptyContainer == [kind |-> "empty"]

Loader == [kind |-> "loader"]

\* renderError(message)
RenderError(message) == [kind |-> "error", message |-> message]

Thrown(container, sv, comp) ==
    [threw |-> TRUE, container |-> container,
     searchVolumeChart |-> sv, competitionChart |-> comp]

\* renderResults(data, sources): what it leaves behind, and whether it threw
RenderResults(data, sources) ==
    IF data.t \in {"null", "undefined"}
    THEN Thrown(EmptyContainer, NoChart, NoChart)
    ELSE
    LET searchVolume == Get(data, "searchVolume")
        searchVolumeValue == Get(data, "searchVolumeValue")
        competition == Get(data, "competition")
        competitionScore == Get(data, "competitionScore")
        alternatives == ListItems(Get(data, "alternatives"))
        suggestedTitles == ListItems(Get(data, "suggestedTitles"))
        longTailKeywords == ListItems(Get(data, "longTailKeywords"))
    IN IF alternatives.threw \/ suggestedTitles.threw \/ longTailKeywords.threw
       THEN Thrown(EmptyContainer, NoChart, NoChart)
       ELSE
       LET html == [kind |-> "results",
                    searchVolume |-> Card(searchVolume, searchVolumeValue),
                    competition |-> Card(competition, competitionScore),
                    alternatives |-> alternatives.items,
                    suggestedTitles |-> suggestedTitles.items,
                    longTailKeywords |-> longTailKeywords.items,
                    sources |-> <<>>]
           sv == IF Defined(searchVolumeValue)
                 THEN RenderSearchVolumeChart(searchVolumeValue)
                 ELSE [threw |-> FALSE, chart |-> NoChart]
       IN IF sv.threw THEN Thrown(html, NoChart, NoChart)
          ELSE [threw |-> FALSE,
                container |-> [html EXCEPT !.sources = SourceLinks(sources)],
                searchVolumeChart |-> sv.chart,
                competitionChart |->
                    IF Defined(competitionScore)
                    THEN RenderCompetitionChart(competitionScore)
                    ELSE NoChart]

(***************************************************************************)
(* The response interpreter of the submit handler.                         *)
(***************************************************************************)
\* a response text that is a string
Text(chars) == [t |-> "text", chars |-> chars]

\* responseText.substring(indexOf('{'), lastIndexOf('}') + 1)
ExtractJson(chars) ==
    Substring(chars, IndexOf(chars, "{"), LastIndexOf(chars, "}") + 1)

\* the message of the submit handler's catch block
GenericError == "analysis-failed"

\* the message of the submit handler's guard
NotConfiguredError == "configure-provider-first"

\* the message of setupApplication's catch block
InitError == "client-init-failed"

\* Catch with a message per kind of failure
CatchByKind(err) == RenderError(err)

\* catch (error) { console.error(error); renderError(generic message) }
Catch(err) == RenderError(GenericError)

\* lines 225-231 of the submit handler, entered with the awaited result;
\* sv and comp are the charts held when it runs.  A response text that is
\* no string makes substring throw, a malformed response like one that
\* does not parse
HandlerTail(responseText, sources, sv, comp) ==
    IF responseText.t # "text"
    THEN [outcome |-> "error", err |-> "MalformedResponse", rendered |-> FALSE,
          container |-> Catch("MalformedResponse"),
          searchVolumeChart |-> sv, competitionChart |-> comp]
    ELSE
    LET parsed == JSONParse(ExtractJson(responseText.chars))
    IN IF ~parsed.ok
       THEN [outcome |-> "error", err |-> "MalformedResponse", rendered |-> FALSE,
             container |-> Catch("MalformedResponse"),
             searchVolumeChart |-> sv, competitionChart |-> comp]
       ELSE
       LET r == RenderResults(parsed.v, sources)
       IN IF r.threw
          THEN [outcome |-> "error", err |-> "RenderError", rendered |-> TRUE,
                container |-> Catch("RenderError"),
                searchVolumeChart |-> r.searchVolumeChart,
                competitionChart |-> r.competitionChart]
          ELSE [outcome |-> "results", err |-> "none", rendered |-> TRUE,
                container |-> r.container,
                searchVolumeChart |-> r.searchVolumeChart,
                competitionChart |-> r.competitionChart]

\* a failure raised by performAnalysis: the catch block alone runs
Failed(err, sv, comp) ==
    [outcome |-> "error", err |-> err, rendered |-> FALSE,
     container |-> Catch(err),
     searchVolumeChart |-> sv, competitionChart |-> comp]

(***************************************************************************)
(* The provider dispatcher.                                                *)
(***************************************************************************)
Providers == {"Google AI", "OpenAI", "Mistral", "OpenRouter"}

Null == "null"

\* PerformAnalysis with the fetch issued a second time
PerformAnalysisTwice(provider, client) ==
    IF provider = "Google AI"
    THEN IF client = Null
         THEN [threw |-> TRUE, err |-> "ClientNotInitialized", calls |-> 0]
         ELSE [threw |-> FALSE, pc |-> "generateContent", calls |-> 1]
    ELSE [threw |-> FALSE, pc |-> "fetch", calls |-> 2]

\* performAnalysis up to its first await: the call it issues and where it
\* suspends, or the error it throws before any call
PerformAnalysis(provider, client) ==
    IF provider = "Google AI"
    THEN IF client = Null
         THEN [threw |-> TRUE, err |-> "ClientNotInitialized", calls |-> 0]
         ELSE [threw |-> FALSE, pc |-> "generateContent", calls |-> 1]
    ELSE [threw |-> FALSE, pc |-> "fetch", calls |-> 1]

\* ReturnedSources with the chunks passed on for every provider
ReturnedSourcesAny(provider, groundingChunks) == groundingChunks

\* the sources performAnalysis returns with the text
ReturnedSources(provider, groundingChunks) ==
    IF provider = "Google AI" THEN groundingChunks ELSE JNull

(***************************************************************************)
(* The page.                                                               *)
(***************************************************************************)
LabelIdle == "analyze"

LabelLoading == "analyzing"

\* SetLoading that leaves the button's label alone once it says loading
SetLoadingKeepsLabel(isLoading) ==
    [input |-> isLoading, country |-> isLoading, language |-> isLoading,
     button |-> isLoading, text |-> LabelLoading]

\* setLoading(isLoading): the four disabled flags and the button's label
SetLoading(isLoading) ==
    [input |-> isLoading, country |-> isLoading, language |-> isLoading,
     button |-> isLoading,
     text |-> IF isLoading THEN LabelLoading ELSE LabelIdle]

\* an api key is null or a text; !apiKey holds for null and for ""
KeySet(apiKey) == apiKey.t = "text" /\ apiKey.chars # <<>>

\* SubmitGuard without the test of the keyword
SubmitGuardAnyKeyword(provider, apiKey, keyword) ==
    IF provider = Null \/ ~KeySet(apiKey) THEN "error" ELSE "dispatch"

\* the guards of the submit handler: "error" shows the not-configured
\* message, "return" does nothing, "dispatch" goes on to performAnalysis
SubmitGuard(provider, apiKey, keyword) ==
    IF provider = Null \/ ~KeySet(apiKey) THEN "error"
    ELSE IF keyword = <<>> THEN "return"
    ELSE "dispatch"

VARIABLES
    booted,              \* main() has run
    localStorage,        \* [ai_provider, api_key]
    ai, currentProvider, currentApiKey,
    searchVolumeChart, competitionChart,
    settingsPanelHidden, setupMessageHidden, formDisabled,
    inputDisabled, countryDisabled, languageDisabled, buttonDisabled,
    buttonText, resultsContainer,
    sub,                 \* the submissions that reached performAnalysis
    responseText,        \* the response text under interpretation
    given,               \* the object a response text was built from
    score                \* the score handed to renderCompetitionChart

config == <<booted, localStorage, ai, currentProvider, currentApiKey>>
charts == <<searchVolumeChart, competitionChart>>
panels == <<settingsPanelHidden, setupMessageHidden, formDisabled>>
disabled == <<inputDisabled, countryDisabled, languageDisabled, buttonDisabled>>
probes == <<responseText, given, score>>
vars == <<config, charts, panels, disabled, buttonText, resultsContainer, sub, probes>>

Unused ==
    [provider |-> Null, keyword |-> <<>>, pc |-> "unused", calls |-> 0,
     outcome |-> "none", err |-> "none", rendered |-> FALSE, sourcesCard |-> FALSE]

Subs == 1..MaxSubmissions

Pending(i) == sub[i].pc \in {"generateContent", "fetch", "text", "json"}

Free == {i \in Subs : sub[i].pc = "unused"}

\* what the user may have typed into the keyword field and the key field
KeywordInputs == {<<" ">>, <<" ", "s">>}

ApiKeyInputs == {<<" ">>, <<"k", " ">>}

NoSaved == [ai_provider |-> Null, api_key |-> JNull]

Saved(provider, apiKey) == [ai_provider |-> provider, api_key |-> apiKey]

\* the page as loaded, before main() runs
Init ==
    /\ booted = FALSE
    /\ localStorage \in {NoSaved} \cup {Saved(p, Text(<<"k">>)) : p \in Providers}
    /\ ai = Null /\ currentProvider = Null /\ currentApiKey = JNull
    /\ searchVolumeChart = NoChart /\ competitionChart = NoChart
    /\ settingsPanelHidden = TRUE /\ setupMessageHidden = TRUE
    /\ formDisabled = FALSE
    /\ inputDisabled = FALSE /\ countryDisabled = FALSE
    /\ languageDisabled = FALSE /\ buttonDisabled = FALSE
    /\ buttonText = LabelIdle
    /\ resultsContainer = EmptyContainer
    /\ sub = [i \in Subs |-> Unused]
    /\ responseText = JUndef /\ given = <<>> /\ score = 0

\* showSetup()
ShowSetup ==
    /\ settingsPanelHidden' = FALSE
    /\ setupMessageHidden' = FALSE
    /\ formDisabled' = TRUE
    /\ inputDisabled' = TRUE /\ countryDisabled' = TRUE
    /\ languageDisabled' = TRUE /\ buttonDisabled' = TRUE

\* new GoogleGenAI(...) returns or throws; no other provider constructs
Constructions(provider) == IF provider = "Google AI" THEN BOOLEAN ELSE {TRUE}

\* setupApplication(provider, apiKey); constructed tells whether
\* new GoogleGenAI(...) returned or threw
SetupApplication(provider, apiKey, constructed) ==
    /\ currentProvider' = provider
    /\ currentApiKey' = apiKey
    /\ IF provider = "Google AI" /\ ~constructed
       THEN /\ resultsContainer' = RenderError(InitError)
            /\ ShowSetup
            /\ UNCHANGED ai
       ELSE /\ ai' = IF provider = "Google AI" THEN "client" ELSE Null
            /\ settingsPanelHidden' = TRUE
            /\ setupMessageHidden' = TRUE
            /\ formDisabled' = FALSE
            /\ inputDisabled' = FALSE /\ countryDisabled' = FALSE
            /\ languageDisabled' = FALSE /\ buttonDisabled' = FALSE
            /\ UNCHANGED resultsContainer

\* main()
Main ==
    /\ ~booted
    /\ booted' = TRUE
    /\ IF localStorage.ai_provider # Null /\ KeySet(localStorage.api_key)
       THEN \E constructed \in Constructions(localStorage.ai_provider) :
              SetupApplication(localStorage.ai_provider, localStorage.api_key,
                               constructed)
       ELSE /\ ShowSetup
            /\ UNCHANGED <<ai, currentProvider, currentApiKey, resultsContainer>>
    /\ UNCHANGED <<localStorage, charts, buttonText, sub, probes>>

\* click on the settings toggle
SettingsToggle ==
    /\ booted
    /\ settingsPanelHidden' = ~settingsPanelHidden
    /\ UNCHANGED <<config, charts, setupMessageHidden, formDisabled, disabled,
                   buttonText, resultsContainer, sub, probes>>

\* submit of the api-key form, which sits in the settings panel
ApiKeySubmit ==
    /\ booted
    /\ ~settingsPanelHidden
    /\ \E typed \in ApiKeyInputs :
         LET apiKey == Trim(typed)
         IN IF apiKey # <<>>
            THEN \E provider \in Providers :
                   \E constructed \in Constructions(provider) :
                     /\ localStorage' = Saved(provider, Text(apiKey))
                     /\ SetupApplication(provider, Text(apiKey), constructed)
            ELSE UNCHANGED <<localStorage, ai, currentProvider, currentApiKey,
                             panels, disabled, resultsContainer>>
    /\ UNCHANGED <<booted, charts, buttonText, sub, probes>>

\* the awaited call of submission i has settled and the rest of the
\* handler has run to its end: r is what the try/catch left, and the
\* finally block calls setLoading(false)
Finish(i, r) ==
    LET off == SetLoading(FALSE)
    IN /\ sub' = [sub EXCEPT ![i] =
                    [@ EXCEPT !.pc = "done", !.outcome = r.outcome, !.err = r.err,
                              !.rendered = r.rendered,
                              !.sourcesCard = (r.outcome = "results"
                                               /\ r.container.sources # <<>>)]]
       /\ resultsContainer' = r.container
       /\ searchVolumeChart' = r.searchVolumeChart
       /\ competitionChart' = r.competitionChart
       /\ inputDisabled' = off.input /\ countryDisabled' = off.country
       /\ languageDisabled' = off.language /\ buttonDisabled' = off.button
       /\ buttonText' = off.text
       /\ UNCHANGED <<config, panels, probes>>

\* the submit handler of the keyword form, up to its first await
Submit(typed) ==
    LET keyword == Trim(typed)
        guard == SubmitGuard(currentProvider, currentApiKey, keyword)
    IN CASE guard = "error" ->
              /\ resultsContainer' = RenderError(NotConfiguredError)
              /\ UNCHANGED <<config, charts, panels, disabled, buttonText, sub, probes>>
         [] guard = "return" -> UNCHANGED vars
         [] OTHER ->
              /\ Free # {}
              /\ LET i == CHOOSE k \in Free : \A j \in Free : k <= j
                     call == PerformAnalysis(currentProvider, ai)
                     started == [Unused EXCEPT !.provider = currentProvider,
                                               !.keyword = keyword,
                                               !.calls = call.calls]
                 IN IF call.threw
                    THEN LET r == Failed(call.err, searchVolumeChart, competitionChart)
                             off == SetLoading(FALSE)
                         IN /\ sub' = [sub EXCEPT ![i] =
                                         [started EXCEPT !.pc = "done",
                                                         !.outcome = r.outcome,
                                                         !.err = r.err]]
                            /\ resultsContainer' = r.container
                            /\ inputDisabled' = off.input
                            /\ countryDisabled' = off.country
                            /\ languageDisabled' = off.language
                            /\ buttonDisabled' = off.button
                            /\ buttonText' = off.text
                    ELSE LET on == SetLoading(TRUE)
                         IN /\ sub' = [sub EXCEPT ![i] =
                                         [started EXCEPT !.pc = call.pc]]
                            /\ resultsContainer' = Loader
                            /\ inputDisabled' = on.input
                            /\ countryDisabled' = on.country
                            /\ languageDisabled' = on.language
                            /\ buttonDisabled' = on.button
                            /\ buttonText' = on.text
              /\ UNCHANGED <<config, charts, panels, probes>>

\* the user submits the keyword form: the analyze button must be enabled
KeywordSubmit ==
    /\ booted
    /\ ~buttonDisabled
    /\ \E typed \in KeywordInputs : Submit(typed)

\* a submit event delivered to the form whatever the state of its controls
KeywordSubmitEvent ==
    /\ booted
    /\ \E typed \in KeywordInputs : Submit(typed)

(***************************************************************************)
(* What the network may answer.                                            *)
(***************************************************************************)
WebChunk == [web |-> TRUE]

PlainChunk == [web |-> FALSE]

\* response.candidates?.[0]?.groundingMetadata?.groundingChunks
GroundingChunks ==
    {JUndef, JArr(<<PlainChunk>>), JArr(<<PlainChunk, WebChunk>>)}

\* citations a chat-completions body may carry besides its choices
BodyChunks == {JUndef, JArr(<<PlainChunk, WebChunk>>)}

\* an object in prose, prose alone
AnswerTexts ==
    { Text(<<"x", "{", "'competition'", ":", "'High'", "}", "x">>),
      Text(<<"x">>) }

\* the same, and an object whose alternatives are a number, which
\* renderResults cannot map
GeneratedTexts ==
    AnswerTexts \cup {Text(<<"{", "'alternatives'", ":", "5", "}">>)}

\* ai.models.generateContent settles
GenerateContentSettles(i) ==
    /\ sub[i].pc = "generateContent"
    /\ \/ Finish(i, Failed("NetworkError", searchVolumeChart, competitionChart))
       \/ \E text \in GeneratedTexts, chunks \in GroundingChunks :
            Finish(i, HandlerTail(text, ReturnedSources(sub[i].provider, chunks),
                                  searchVolumeChart, competitionChart))

\* fetch settles: rejected, or a response whose body is still to be read
FetchSettles(i) ==
    /\ sub[i].pc = "fetch"
    /\ \/ Finish(i, Failed("NetworkError", searchVolumeChart, competitionChart))
       \/ /\ \E next \in {"text", "json"} :
               sub' = [sub EXCEPT ![i].pc = next]
          /\ UNCHANGED <<config, charts, panels, disabled, buttonText,
                         resultsContainer, probes>>

\* response.text() of a non-2xx response settles: the handler throws
ErrorBodySettles(i) ==
    /\ sub[i].pc = "text"
    /\ \E err \in {"ProviderHTTPError", "NetworkError"} :
         Finish(i, Failed(err, searchVolumeChart, competitionChart))

\* response.json() settles with content as data.choices[0].message.content
\* and chunks as whatever citations the body carries besides
JsonBodyResolves(i, content, chunks) ==
    /\ sub[i].pc = "json"
    /\ Finish(i, HandlerTail(content, ReturnedSources(sub[i].provider, chunks),
                             searchVolumeChart, competitionChart))

\* response.json() settles
JsonBodySettles(i) ==
    \/ /\ sub[i].pc = "json"
       /\ \E err \in {"NetworkError", "MalformedResponse"} :
            Finish(i, Failed(err, searchVolumeChart, competitionChart))
    \/ \E text \in AnswerTexts, chunks \in BodyChunks :
         JsonBodyResolves(i, text, chunks)

Settle ==
    \E i \in Subs :
        \/ GenerateContentSettles(i)
        \/ FetchSettles(i)
        \/ ErrorBodySettles(i)
        \/ JsonBodySettles(i)

Next ==
    \/ Main
    \/ SettingsToggle
    \/ ApiKeySubmit
    \/ KeywordSubmit
    \/ Settle

Spec == Init /\ [][Next]_vars

\* the keyword form receives submit events whatever its controls' state
NextDispatch ==
    \/ Main
    \/ SettingsToggle
    \/ ApiKeySubmit
    \/ KeywordSubmitEvent
    \/ Settle

SpecDispatch == Init /\ [][NextDispatch]_vars

(***************************************************************************)
(* The interpreter on enumerated response texts: a configured page with    *)
(* one submission in flight, and the response it is about to receive.      *)
(* Every short text is answered to a Google AI and to an OpenAI request;   *)
(* the objects in prose are answered to an OpenAI request.                 *)
(***************************************************************************)
InterpAlphabet == {"{", "}", "5", "x", "'a'", "null"}

RECURSIVE SeqsUpTo(_, _)
SeqsUpTo(alphabet, n) ==
    IF n = 0 THEN {<<>>}
    ELSE LET shorter == SeqsUpTo(alphabet, n - 1)
         IN shorter \cup {Append(q, c) : q \in shorter, c \in alphabet}

EnumTexts == SeqsUpTo(InterpAlphabet, MaxLen)

Pads == SeqsUpTo({"x", "5"}, MaxPad)

Missing == JUndef

LabelOptions == {Missing, JStr("High"), JStr("")}

NumberOptions == {Missing, JNum(0), JNum(75)}

ArrayOptions == {Missing, JArr(<<>>), JArr(<<JStr("a"), JStr("High")>>)}

\* one option per key, in the order of Keys
Givens ==
    {<<sv, svv, c, cs, a, t, l>> :
        sv \in LabelOptions, svv \in NumberOptions,
        c \in LabelOptions, cs \in NumberOptions,
        a \in ArrayOptions, t \in ArrayOptions, l \in ArrayOptions}

NumToken(n) == CHOOSE tok \in NumTokens : NumVal[tok] = n

StrToken(str) == CHOOSE tok \in StrTokens : StrVal[tok] = str

Comma(pretty) == IF pretty THEN <<",", " ">> ELSE <<",">>

Colon(pretty) == IF pretty THEN <<":", " ">> ELSE <<":">>

RECURSIVE Joined(_, _)
Joined(parts, sep) ==
    IF parts = <<>> THEN <<>>
    ELSE IF Len(parts) = 1 THEN parts[1]
    ELSE parts[1] \o sep \o Joined(Tail(parts), sep)

\* JSON.stringify of a value, on tokens
RECURSIVE ValueTokens(_, _)
ValueTokens(v, pretty) ==
    CASE v.t = "num" -> <<NumToken(v.n)>>
      [] v.t = "str" -> <<StrToken(v.s)>>
      [] v.t = "null" -> <<"null">>
      [] v.t = "arr" ->
           <<"[">>
           \o Joined([i \in 1..Len(v.items) |-> ValueTokens(v.items[i], pretty)],
                     Comma(pretty))
           \o <<"]">>

\* the object holding the keys that are not Missing, on tokens
ObjectTokens(g, pretty) ==
    LET present == SelectSeq([i \in 1..Len(Keys) |-> i], LAMBDA i : Defined(g[i]))
        member(i) == <<StrToken(Keys[i])>> \o Colon(pretty) \o ValueTokens(g[i], pretty)
    IN <<"{">>
       \o Joined([n \in 1..Len(present) |-> member(present[n])], Comma(pretty))
       \o <<"}">>

InFlight(provider) ==
    [Unused EXCEPT !.provider = provider, !.keyword = <<"s">>, !.calls = 1,
                   !.pc = IF provider = "Google AI" THEN "generateContent" ELSE "json"]

InterpProviders == {"Google AI", "OpenAI"}

InitInterp ==
    /\ booted = TRUE
    /\ currentProvider \in InterpProviders
    /\ currentApiKey = Text(<<"k">>)
    /\ localStorage = Saved(currentProvider, currentApiKey)
    /\ ai = IF currentProvider = "Google AI" THEN "client" ELSE Null
    /\ searchVolumeChart = NoChart /\ competitionChart = NoChart
    /\ settingsPanelHidden = TRUE /\ setupMessageHidden = TRUE
    /\ formDisabled = FALSE
    /\ inputDisabled = TRUE /\ countryDisabled = TRUE
    /\ languageDisabled = TRUE /\ buttonDisabled = TRUE
    /\ buttonText = LabelLoading
    /\ resultsContainer = Loader
    /\ sub = [i \in Subs |-> IF i = 1 THEN InFlight(currentProvider) ELSE Unused]
    /\ score = 0
    /\ \/ /\ given = <<>>
          /\ responseText \in {Text(q) : q \in EnumTexts} \cup {JUndef}
       \/ /\ currentProvider = "OpenAI"
          /\ given \in Givens
          /\ \E before \in Pads, after \in Pads, pretty \in BOOLEAN :
               responseText = Text(before \o ObjectTokens(given, pretty) \o after)

\* the call in flight settles with responseText
Interpret ==
    \/ /\ sub[1].pc = "generateContent"
       /\ Finish(1, HandlerTail(responseText, ReturnedSources(sub[1].provider, JUndef),
                                searchVolumeChart, competitionChart))
    \/ JsonBodyResolves(1, responseText, JUndef)

SpecInterp == InitInterp /\ [][Interpret]_vars

(***************************************************************************)
(* The gauge on a range of scores: the competition canvas is on the page.  *)
(***************************************************************************)
Scores == (0 - ScoreSpan)..(100 + ScoreSpan)

InitGauge ==
    /\ booted = TRUE
    /\ currentProvider = "OpenAI"
    /\ currentApiKey = Text(<<"k">>)
    /\ localStorage = Saved(currentProvider, currentApiKey)
    /\ ai = Null
    /\ searchVolumeChart = NoChart /\ competitionChart = NoChart
    /\ settingsPanelHidden = TRUE /\ setupMessageHidden = TRUE
    /\ formDisabled = FALSE
    /\ inputDisabled = FALSE /\ countryDisabled = FALSE
    /\ languageDisabled = FALSE /\ buttonDisabled = FALSE
    /\ buttonText = LabelIdle
    /\ resultsContainer = EmptyContainer
    /\ sub = [i \in Subs |-> Unused]
    /\ responseText = JUndef /\ given = <<>>
    /\ score \in Scores

\* renderCompetitionChart(score)
DrawGauge ==
    /\ competitionChart = NoChart
    /\ competitionChart' = RenderCompetitionChart(JNum(score))
    /\ UNCHANGED <<config, searchVolumeChart, panels, disabled, buttonText,
                   resultsContainer, sub, probes>>

SpecGauge == InitGauge /\ [][DrawGauge]_vars

(***************************************************************************)
(* Properties.                                                             *)
(***************************************************************************)
Started(i) == sub[i].pc # "unused"

Done(i) == sub[i].pc = "done"

AllEnabled ==
    ~inputDisabled /\ ~countryDisabled /\ ~languageDisabled /\ ~buttonDisabled

AllDisabled ==
    inputDisabled /\ countryDisabled /\ languageDisabled /\ buttonDisabled

\* C1: at most one analysis request is in flight at any time, under every
\* interleaving of keyword submits, api-key submits and settings toggles
\* with the pending network call.
C1_OneRequestInFlight == Cardinality({i \in Subs : Pending(i)}) <= 1

BraceSpan(chars) ==
    SubSeq(chars, IndexOf(chars, "{") + 1, LastIndexOf(chars, "}") + 1)

\* no opening brace, no closing brace, or a span that is not valid JSON
Malformed(chars) ==
    \/ IndexOf(chars, "{") = -1
    \/ LastIndexOf(chars, "}") = -1
    \/ ~JSONParse(BraceSpan(chars)).ok

\* C3: a response text with no opening brace or no closing brace, or whose
\* span from the first opening to the last closing brace is not valid JSON,
\* ends the submit handler in the error outcome, and renderResults never
\* runs on it.
C3_MalformedTextIsError ==
    (Done(1) /\ responseText.t = "text" /\ Malformed(responseText.chars)) =>
        /\ sub[1].outcome = "error"
        /\ ~sub[1].rendered
        /\ resultsContainer = RenderError(GenericError)

Supplied(key) ==
    given[CHOOSE i \in 1..Len(Keys) : Keys[i] = key]

\* the items shown for an array key: its own, or none when it is missing
ItemsOf(key) == IF Defined(Supplied(key)) THEN Supplied(key).items ELSE <<>>

NumbersAndArraysRoundTrip ==
    /\ sub[1].outcome = "results"
    /\ resultsContainer.kind = "results"
    /\ searchVolumeChart =
         IF Defined(Supplied("searchVolumeValue"))
         THEN [type |-> "bar", data |-> Supplied("searchVolumeValue")]
         ELSE NoChart
    /\ Defined(Supplied("competitionScore")) => competitionChart # NoChart
    /\ Defined(Supplied("competitionScore")) =>
         competitionChart.data = Supplied("competitionScore")
    /\ ~Defined(Supplied("competitionScore")) => competitionChart = NoChart
    /\ resultsContainer.alternatives = ItemsOf("alternatives")
    /\ resultsContainer.suggestedTitles = ItemsOf("suggestedTitles")
    /\ resultsContainer.longTailKeywords = ItemsOf("longTailKeywords")

\* the label is shown, as supplied, or as the marker when it is missing
LabelOrMarker(card, label, number) ==
    /\ card.shown
    /\ card.label = IF Defined(Supplied(label)) THEN Supplied(label) ELSE Unavailable
    /\ card.canvas = Defined(Supplied(number))

HasText(key) == Defined(Supplied(key)) /\ Supplied(key) # JStr("")

\* the card is there when its number or a non-empty label is supplied, and
\* then shows the label, or the marker for a missing or empty label
LabelWhenCardShown(card, label, number) ==
    /\ card.shown <=> (Defined(Supplied(number)) \/ HasText(label))
    /\ card.shown =>
         /\ card.label = IF HasText(label) THEN Supplied(label) ELSE Unavailable
         /\ card.canvas = Defined(Supplied(number))

Failures ==
    {"ClientNotInitialized", "NetworkError", "ProviderHTTPError", "MalformedResponse",
     "RenderError"}

\* C5: every failure raised during a submission is caught by the submit
\* handler and shown as the one generic error message, and no failure
\* causes a further outbound call: the count of calls of a failed
\* submission is what it was when it failed, and stays so.
C5_FailuresCaughtNoRetry ==
    [][\A i \in Subs :
         /\ (~Done(i) /\ sub'[i].pc = "done" /\ sub'[i].outcome = "error") =>
               /\ sub'[i].err \in Failures
               /\ resultsContainer' = RenderError(GenericError)
               /\ sub'[i].calls = IF Started(i) THEN sub[i].calls ELSE 0
         /\ Done(i) => sub'[i] = sub[i]]_vars

\* two submissions have failed, in two ways, each after its one call, and
\* the generic message is up
C5_Witness ==
    /\ \E i \in Subs : Done(i) /\ sub[i].err = "NetworkError" /\ sub[i].calls = 1
    /\ \E i \in Subs : Done(i) /\ sub[i].err = "MalformedResponse" /\ sub[i].calls = 1
    /\ resultsContainer = RenderError(GenericError)

\* C6: after a failed setup the setup panel's message is shown and the
\* keyword form's inputs and button are disabled, and stay disabled until a
\* later setupApplication succeeds (which hides the message again), also
\* with an analysis request in flight when the setup failed.
C6_UnconfiguredStaysDisabled == ~setupMessageHidden => AllDisabled

\* C7: the sources returned for OpenAI, Mistral and OpenRouter are empty
\* whatever the response holds, so no sources card is rendered for a
\* request dispatched to one of them.
C7_NoSourcesForOtherProviders ==
    /\ \A i \in Subs :
         (Started(i) /\ sub[i].provider # "Google AI") => ~sub[i].sourcesCard
    /\ (resultsContainer.kind = "results" /\ resultsContainer.sources # <<>>) =>
         \E i \in Subs : Done(i) /\ sub[i].provider = "Google AI" /\ sub[i].sourcesCard

\* results are up for an OpenRouter request, without sources, and a
\* Google AI request has had its sources card
C7_Witness ==
    /\ \E i \in Subs : Done(i) /\ sub[i].provider = "OpenRouter"
                       /\ sub[i].outcome = "results"
    /\ \E i \in Subs : Done(i) /\ sub[i].provider = "Google AI" /\ sub[i].sourcesCard
    /\ resultsContainer.kind = "results"
    /\ resultsContainer.sources = <<>>

StartsSubmission(i) == ~Started(i) /\ sub'[i].pc # "unused"

EntersLoading == resultsContainer # Loader /\ resultsContainer' = Loader

\* C8: performAnalysis is invoked only with a non-empty trimmed keyword and
\* with currentProvider and currentApiKey both set; a submit that fails
\* either condition issues no call and does not enter the loading state.
C8_DispatchPrecondition ==
    [][/\ \A i \in Subs :
            StartsSubmission(i) =>
                /\ currentProvider \in Providers
                /\ currentApiKey.t = "text" /\ currentApiKey.chars # <<>>
                /\ sub'[i].provider = currentProvider
                /\ sub'[i].keyword # <<>>
                /\ \A c \in 1..Len(sub'[i].keyword) :
                     c \in {1, Len(sub'[i].keyword)} => sub'[i].keyword[c] # " "
       /\ (EntersLoading \/ (buttonText # LabelLoading /\ buttonText' = LabelLoading)) =>
            \E i \in Subs : StartsSubmission(i)
       /\ (\A i \in Subs : ~StartsSubmission(i)) =>
            \A i \in Subs : sub'[i].calls = sub[i].calls]_vars

\* a submit has been refused for want of a provider: the message is up,
\* nothing was dispatched and the page is not loading
C8_Witness ==
    /\ resultsContainer = RenderError(NotConfiguredError)
    /\ \A i \in Subs : ~Started(i)
    /\ buttonText = LabelIdle

\* C9: the gauge's colour depends on the score alone: green up to 33,
\* yellow from 34 to 66, red above 66.
C9_GaugeColour ==
    competitionChart # NoChart =>
        /\ score <= 33 => competitionChart.color = "green"
        /\ (34 <= score /\ score <= 66) => competitionChart.color = "yellow"
        /\ score > 66 => competitionChart.color = "red"
        /\ competitionChart.data = JNum(score)

\* the gauge of a score of 50 has been drawn, in yellow
C9_Witness == score = 50 /\ competitionChart # NoChart /\ competitionChart.color = "yellow"

====
